---- MODULE Spec2Model ----
(***************************************************************************)
(* Model of the image preparation tool: the five-slot admission component  *)
(* of src/js/app.js (imageApp) and the normalization pipeline of           *)
(* src/js/image-processor.js (ImageProcessor).                             *)
(*                                                                         *)
(* JavaScript runs one handler at a time; an async handler gives up        *)
(* control only where it awaits something the platform completes later     *)
(* (script load, HEIC conversion, image decode, canvas encode).  An action *)
(* of this model is one such uninterrupted stretch: a handler call up to   *)
(* its first platform await, or the completion of a platform await up to   *)
(* the next one.  Awaits of already settled promises only queue            *)
(* microtasks, which run before any other handler, so they do not end a    *)
(* stretch.  Handlers are public methods without guards of their own and   *)
(* may be called in any state.                                             *)
(*                                                                         *)
(* Not modelled: the step wizard (currentStep), the artist name, the       *)
(* drag flag, the selected slot and the screen-reader announcements.       *)
(***************************************************************************)
EXTENDS Integers, Sequences, FiniteSets, TLC

(***************************************************************************)
(* Bounds of the model                                                     *)
(***************************************************************************)
\* admission study: calls of handleFiles, uploadToSlot, reUploadSlot,
\* handleSlotReplace and clearSlot per behaviour
MaxCalls == 3
\* batch study: calls of handleFiles per behaviour
MaxBatchCalls == 2
\* batch study: calls of clearSlot per behaviour
MaxClears == 1
\* batch study: accepted calls of processAllImages per behaviour
MaxRuns == 2
\* batch study: calls of resetApp per behaviour (each allocates five new slot objects)
MaxResets == 1
\* source edges up to MaxEdgeMul * MAX_EDGE are planned
MaxEdgeMul == 3

(***************************************************************************)
(* Program constants                                                       *)
(***************************************************************************)
NumSlots == 5
MAX_EDGE == 2000
TARGET_SIZE == 1 * 1024 * 1024
\* qualities are counted in thousandths: 0.92 is 920
INITIAL_QUALITY == 920
QUALITY_STEP == 50
MIN_QUALITY == 300
maxSize == 10 * 1024 * 1024
MinLongest == 1500

Idx == 0 .. (NumSlots - 1)

(***************************************************************************)
(* Arithmetic of the platform                                              *)
(***************************************************************************)
Max(a, b) == IF a >= b THEN a ELSE b

\* Math.round(num / den) for den > 0: nearest integer, halves go up
MathRound(num, den) == (2 * num + den) \div (2 * den)

(***************************************************************************)
(* Files.  A name is a stem and an extension, so that the extension test   *)
(* and the renaming of _convertHeic can be computed.  px is the natural    *)
(* size of the picture the bytes decode to, <<0, 0>> when they do not      *)
(* decode; the program learns it only through the platform's decoder.      *)
(***************************************************************************)
NoName == [stem |-> "", ext |-> ""]
NoFile == [name |-> NoName, size |-> 0, type |-> "null", px |-> <<0, 0>>]

File(stem, ext, size, type, px) ==
  [name |-> [stem |-> stem, ext |-> ext], size |-> size, type |-> type, px |-> px]

FA == File("a", "jpg", 1000, "image/jpeg", <<3000, 2000>>)
\* same name as FA, other size
FA2 == File("a", "jpg", 2000, "image/jpeg", <<3000, 2000>>)
\* same size as FA, other name
FB == File("b", "png", 1000, "image/png", <<1000, 1500>>)
FC == File("c", "webp", 1000, "image/webp", <<2000, 2000>>)
FD == File("d", "jpg", 1000, "image/jpeg", <<6000, 1>>)
\* exactly 10 MiB
FE == File("e", "jpg", maxSize, "image/jpeg", <<2001, 1500>>)
\* a HEIC file that the browser reports without a type, of an accepted size
FH == File("h", "HEIC", 3000, "", <<4000, 3000>>)
\* a HEIC file of 11 MiB
FHB == File("hb", "heic", 11 * 1024 * 1024, "image/heic", <<4000, 3000>>)
\* a JPEG one byte over 10 MiB
FJB == File("jb", "jpg", maxSize + 1, "image/jpeg", <<4000, 3000>>)
\* not an image
FT == File("t", "txt", 1000, "text/plain", <<0, 0>>)
\* a picture whose longest edge is one pixel short
FS == File("s", "jpg", 1000, "image/jpeg", <<1499, 1000>>)
\* a JPEG by name and type that does not decode
FX == File("x", "jpg", 1000, "image/jpeg", <<0, 0>>)

Files == {FA, FA2, FB, FC, FD, FE, FH, FHB, FJB, FT, FS, FX}

\* the file lists handed to handleFiles in the admission study
FileLists ==
  { <<>>, <<FA, FA>>, <<FHB, FH>>, <<FT, FA2>>, <<FS, FX>>, <<FA, FB, FC, FD, FE, FJB>> }

\* the files picked for one slot (handleSlotReplace) in the admission study
ReplaceFiles == {FA, FH}

(***************************************************************************)
(* Slot records (app.js 76-82).  A field that holds null in the program    *)
(* holds NoFile, NoError, NoBlob or the handle 0 here.                     *)
(***************************************************************************)
Err(msg, arg) == [msg |-> msg, arg |-> arg]
NoError == Err("null", 0)
\* a processed blob is known by the file it was made from
NoBlob == [src |-> NoFile]

EmptySlot(i) ==
  [ id |-> i + 1, status |-> "empty", file |-> NoFile, originalFile |-> NoFile,
    originalUrl |-> 0, error |-> NoError, processedBlob |-> NoBlob, processedUrl |-> 0 ]

FreshSlots == [i \in Idx |-> EmptySlot(i)]

\* the error messages of assignFileToSlot, validateFile, _loadHeicLib and _convertHeic
ErrDuplicate == Err("Duplicate file.", 0)
\* 'Too large (' + (size / (1024 * 1024)).toFixed(1) + 'MB). Max 10MB.': arg is in tenths of a MB
ErrTooLarge(size) == Err("Too large. Max 10MB.", MathRound(size * 10, 1024 * 1024))
ErrLoad == Err("Could not load HEIC support. Please convert to JPG or PNG first.", 0)
ErrNoHeic == Err("HEIC not supported. Use JPG/PNG.", 0)
ErrConvert == Err("HEIC conversion failed. Use JPG/PNG.", 0)
ErrType == Err("Use JPG, PNG, WebP, or HEIC.", 0)
ErrRead == Err("Cannot read image.", 0)
ErrTooSmall(longest) == Err("Too small. Min 1500px.", longest)

(***************************************************************************)
(* The state of the component                                              *)
(***************************************************************************)
VARIABLES
  heap,               \* the slot objects ever allocated: heap[g] is the array built by the g-th reset
  gen,                \* this.slots is heap[gen]
  isProcessing,
  processingProgress,
  processingCurrent,
  excessMessage,
  replaceSlotIndex,   \* -1 is null
  heicLoaded,         \* this._heicLoaded
  HeicTo,             \* the global HeicTo is defined
  liveUrls,           \* object URLs created and not revoked
  admissions,         \* suspended handleFiles / handleSlotReplace calls
  runs,               \* suspended processAllImages calls
  lastTrans,          \* the status assignments of the last action, as <<from, to>>
  quietRun,           \* the run that no other handler has disturbed since it started
  budget,             \* calls left per handler
  pIn,                \* pipeline study: the input of ImageProcessor.process
  pDims,              \* pipeline study: the planned dimensions
  pOut                \* pipeline study: the settled result

vars ==
  << heap, gen, isProcessing, processingProgress, processingCurrent, excessMessage,
     replaceSlotIndex, heicLoaded, HeicTo, liveUrls, admissions, runs, lastTrans,
     quietRun, budget, pIn, pDims, pOut >>

\* this.slots
slots == heap[gen]

\* the component as one record, threaded through the statements of a handler
Cur ==
  [ heap |-> heap, gen |-> gen, isProcessing |-> isProcessing,
    processingProgress |-> processingProgress, processingCurrent |-> processingCurrent,
    excessMessage |-> excessMessage, replaceSlotIndex |-> replaceSlotIndex,
    heicLoaded |-> heicLoaded, HeicTo |-> HeicTo, liveUrls |-> liveUrls, trans |-> {} ]

\* slot.status = s on the slot object heap[g][i]; assignments to the slots of
\* the current array are logged
SetStatus(st, g, i, s) ==
  LET old == st.heap[g][i].status IN
  [st EXCEPT !.heap[g][i].status = s,
             !.trans = IF g = st.gen /\ old # s THEN @ \cup {<<old, s>>} ELSE @]

\* URL.createObjectURL: a handle that is neither live nor still written in a slot
UsedUrls(st) ==
  st.liveUrls \cup {st.heap[g][i].originalUrl : g \in DOMAIN st.heap, i \in Idx}
              \cup {st.heap[g][i].processedUrl : g \in DOMAIN st.heap, i \in Idx}

createObjectURL(st) == CHOOSE n \in 1 .. (Cardinality(UsedUrls(st)) + 1) :
                          /\ n \notin UsedUrls(st)
                          /\ \A m \in 1 .. (n - 1) : m \in UsedUrls(st)

\* URL.revokeObjectURL(u) guarded by `if (u)`
revokeObjectURL(st, u) == IF u # 0 THEN [st EXCEPT !.liveUrls = @ \ {u}] ELSE st

(***************************************************************************)
(* _clearSlot (app.js 508-519), on this.slots[index]                       *)
(***************************************************************************)
_clearSlot(st, index) ==
  LET g == st.gen
      slot == st.heap[g][index]
      s1 == revokeObjectURL(st, slot.originalUrl)
      s2 == revokeObjectURL(s1, slot.processedUrl)
      s3 == SetStatus(s2, g, index, "empty")
  IN [s3 EXCEPT !.heap[g][index].file = NoFile,
                !.heap[g][index].originalFile = NoFile,
                !.heap[g][index].originalUrl = 0,
                !.heap[g][index].error = NoError,
                !.heap[g][index].processedBlob = NoBlob,
                !.heap[g][index].processedUrl = 0]

(***************************************************************************)
(* _isHeic (app.js 239-244)                                                *)
(***************************************************************************)
toLowerCase(ext) ==
  CASE ext = "HEIC" -> "heic"
    [] ext = "HEIF" -> "heif"
    [] ext = "JPG" -> "jpg"
    [] OTHER -> ext

_isHeic(file) ==
  \/ file.type = "image/heic"
  \/ file.type = "image/heif"
  \/ toLowerCase(file.name.ext) \in {"heic", "heif"}

\* the File built by _convertHeic (app.js 274-275) from a JPEG blob of the given size
ConvertedFile(file, blobSize) ==
  [ name |-> IF toLowerCase(file.name.ext) \in {"heic", "heif"}
             THEN [stem |-> file.name.stem, ext |-> "jpg"]
             ELSE file.name,
    size |-> blobSize,
    type |-> "image/jpeg",
    px |-> file.px ]

(***************************************************************************)
(* assignFileToSlot (app.js 285-334).  A stretch of it ends either settled *)
(* (the call has returned) or suspended at a platform await: "loadlib"     *)
(* (the script of _loadHeicLib), "convert" (HeicTo) or "probe"             *)
(* (ImageProcessor.getDimensions).  g is the array the captured `slot`     *)
(* object belongs to.                                                      *)
(***************************************************************************)
Settled(st) == [st |-> st, pc |-> "settled", wf |-> NoFile]
Suspended(st, pc, wf) == [st |-> st, pc |-> pc, wf |-> wf]

validTypes == {"image/jpeg", "image/png", "image/webp"}

\* a duplicate test that compares names only
isDuplicateByName(sl, index, file) ==
  \E i \in Idx :
    /\ i # index
    /\ sl[i].originalFile # NoFile
    /\ sl[i].originalFile.name = file.name

\* a duplicate test that looks at the slots before index only
isDuplicateBelow(sl, index, file) ==
  \E i \in Idx :
    /\ i < index
    /\ sl[i].originalFile # NoFile
    /\ sl[i].originalFile.name = file.name
    /\ sl[i].originalFile.size = file.size

\* the duplicate test of lines 293-296
isDuplicate(sl, index, file) ==
  \E i \in Idx :
    /\ i # index
    /\ sl[i].originalFile # NoFile
    /\ sl[i].originalFile.name = file.name
    /\ sl[i].originalFile.size = file.size

\* the catch block, lines 323-333
AssignCatch(st, g, index, err) ==
  LET s1 == SetStatus(st, g, index, "error")
      s2 == [s1 EXCEPT !.heap[g][index].error = err]
      u == s2.heap[g][index].originalUrl
      s3 == IF u # 0
            THEN [revokeObjectURL(s2, u) EXCEPT !.heap[g][index].originalUrl = 0]
            ELSE s2
  IN [s3 EXCEPT !.heap[g][index].file = NoFile,
                !.heap[g][index].originalFile = NoFile]

\* lines 316-319 with validateFile (339-358) up to the await of getDimensions
AssignAfterConvert(st, g, index, workingFile) ==
  LET u == createObjectURL(st)
      s1 == [st EXCEPT !.heap[g][index].file = workingFile,
                       !.heap[g][index].originalUrl = u,
                       !.liveUrls = @ \cup {u}]
  IN IF workingFile.type \notin validTypes
     THEN Settled(AssignCatch(s1, g, index, ErrType))
     ELSE Suspended(s1, "probe", workingFile)

\* _convertHeic (267-280) after _loadHeicLib has resolved
_convertHeic(st, g, index, file) ==
  IF ~st.HeicTo
  THEN Settled(AssignCatch(st, g, index, ErrNoHeic))
  ELSE Suspended(st, "convert", file)

\* _loadHeicLib (250-262) as called from _convertHeic
_loadHeicLib(st, g, index, file) ==
  IF st.heicLoaded \/ st.HeicTo
  THEN _convertHeic([st EXCEPT !.heicLoaded = TRUE], g, index, file)
  ELSE Suspended(st, "loadlib", file)

\* an admission that converts HEIC files before it checks the size
assignFileToSlotConvertFirst(st, index, file) ==
  LET g == st.gen
      s1 == _clearSlot(st, index)
      s2 == SetStatus(s1, g, index, "validating")
  IN IF isDuplicate(s2.heap[g], index, file)
     THEN Settled(AssignCatch(s2, g, index, ErrDuplicate))
     ELSE LET s3 == [s2 EXCEPT !.heap[g][index].originalFile = file] IN
          IF _isHeic(file)
          THEN _loadHeicLib(s3, g, index, file)
          ELSE IF file.size > maxSize
               THEN Settled(AssignCatch(s3, g, index, ErrTooLarge(file.size)))
               ELSE AssignAfterConvert(s3, g, index, file)

\* the call of assignFileToSlot up to its first platform await
assignFileToSlot(st, index, file) ==
  LET g == st.gen
      s1 == _clearSlot(st, index)
      s2 == SetStatus(s1, g, index, "validating")
  IN IF isDuplicate(s2.heap[g], index, file)
     THEN Settled(AssignCatch(s2, g, index, ErrDuplicate))
     ELSE LET s3 == [s2 EXCEPT !.heap[g][index].originalFile = file] IN
          IF file.size > maxSize
          THEN Settled(AssignCatch(s3, g, index, ErrTooLarge(file.size)))
          ELSE IF _isHeic(file)
               THEN _loadHeicLib(s3, g, index, file)
               ELSE AssignAfterConvert(s3, g, index, file)

\* the script has loaded (onload) or failed (onerror)
LoadSettled(st, g, index, file, ok) ==
  IF ok
  THEN _convertHeic([st EXCEPT !.heicLoaded = TRUE, !.HeicTo = TRUE], g, index, file)
  ELSE Settled(AssignCatch(st, g, index, ErrLoad))

\* HeicTo has answered: blobSize is 0 when it threw
ConvertSettled(st, g, index, file, blobSize) ==
  IF blobSize > 0
  THEN AssignAfterConvert(st, g, index, ConvertedFile(file, blobSize))
  ELSE Settled(AssignCatch(st, g, index, ErrConvert))

\* getDimensions has answered: dims is <<0, 0>> when the image could not be read
ProbeSettled(st, g, index, dims) ==
  IF dims = <<0, 0>>
  THEN Settled(AssignCatch(st, g, index, ErrRead))
  ELSE LET longest == Max(dims[1], dims[2]) IN
       IF longest < MinLongest
       THEN Settled(AssignCatch(st, g, index, ErrTooSmall(longest)))
       ELSE Settled([SetStatus(st, g, index, "valid") EXCEPT !.heap[g][index].error = NoError])

(***************************************************************************)
(* handleFiles (app.js 205-234) and handleSlotReplace (388-394).  A        *)
(* suspended call keeps its locals: emptyIndices, toAssign and the loop    *)
(* index i (counted from 1 here).                                          *)
(***************************************************************************)
MsgNone == [msg |-> "", n |-> 0]
MsgAllFilled == [msg |-> "All slots are filled. Remove an image first.", n |-> 0]
MsgSkipped(excess) ==
  [ msg |-> IF excess > 1 THEN "files were skipped (no empty slots remaining)."
                          ELSE "file was skipped (no empty slots remaining).",
    n |-> excess ]

\* the result of a stretch of a call: the component, the call if it is suspended,
\* and the assignFileToSlot calls the stretch made, as <<index, file>>
Returned(st) == [st |-> st, task |-> <<>>, calls |-> <<>>]

AdmissionTask(emptyIndices, toAssign, i, g, r) ==
  [ emptyIndices |-> emptyIndices, toAssign |-> toAssign, i |-> i, g |-> g,
    pc |-> r.pc, wf |-> r.wf ]

RECURSIVE AssignLoop(_, _, _, _)
\* the for loop of lines 231-233, entered at iteration i
AssignLoop(st, emptyIndices, toAssign, i) ==
  IF i > Len(toAssign)
  THEN Returned(st)
  ELSE LET r == assignFileToSlot(st, emptyIndices[i], toAssign[i])
           call == <<emptyIndices[i], toAssign[i]>>
       IN IF r.pc = "settled"
          THEN LET rest == AssignLoop(r.st, emptyIndices, toAssign, i + 1) IN
               [rest EXCEPT !.calls = <<call>> \o @]
          ELSE [ st |-> r.st,
                 task |-> <<AdmissionTask(emptyIndices, toAssign, i, st.gen, r)>>,
                 calls |-> <<call>> ]

RECURSIVE EmptyIndicesOrFailedFrom(_, _)
\* a search for free slots that also takes the slots in error
EmptyIndicesOrFailedFrom(sl, i) ==
  IF i >= NumSlots
  THEN <<>>
  ELSE (IF sl[i].status \in {"empty", "error"} THEN <<i>> ELSE <<>>)
         \o EmptyIndicesOrFailedFrom(sl, i + 1)

RECURSIVE EmptyIndicesFrom(_, _)
\* the forEach of lines 212-214
EmptyIndicesFrom(sl, i) ==
  IF i >= NumSlots
  THEN <<>>
  ELSE (IF sl[i].status = "empty" THEN <<i>> ELSE <<>>) \o EmptyIndicesFrom(sl, i + 1)

handleFiles(st, fileList) ==
  IF Len(fileList) = 0
  THEN Returned(st)
  ELSE LET emptyIndices == EmptyIndicesFrom(st.heap[st.gen], 0) IN
       IF Len(emptyIndices) = 0
       THEN Returned([st EXCEPT !.excessMessage = MsgAllFilled])
       ELSE LET toAssign == SubSeq(fileList, 1,
                                   IF Len(fileList) < Len(emptyIndices)
                                   THEN Len(fileList) ELSE Len(emptyIndices))
                excess == Len(fileList) - Len(toAssign)
                s1 == [st EXCEPT !.excessMessage =
                                    IF excess > 0 THEN MsgSkipped(excess) ELSE MsgNone]
            IN AssignLoop(s1, emptyIndices, toAssign, 1)

handleSlotReplace(st, fileList) ==
  IF Len(fileList) = 0 \/ st.replaceSlotIndex = -1
  THEN Returned(st)
  ELSE LET index == st.replaceSlotIndex
           s1 == [st EXCEPT !.replaceSlotIndex = -1]
       IN AssignLoop(s1, <<index>>, <<fileList[1]>>, 1)

\* a platform await of a suspended call completes; the call runs on
AdmissionResume(st, t, outcome) ==
  LET index == t.emptyIndices[t.i]
      r == CASE t.pc = "loadlib" -> LoadSettled(st, t.g, index, t.wf, outcome.ok)
             [] t.pc = "convert" -> ConvertSettled(st, t.g, index, t.wf, outcome.blobSize)
             [] t.pc = "probe" -> ProbeSettled(st, t.g, index, outcome.dims)
  IN IF r.pc = "settled"
     THEN AssignLoop(r.st, t.emptyIndices, t.toAssign, t.i + 1)
     ELSE [ st |-> r.st,
            task |-> <<AdmissionTask(t.emptyIndices, t.toAssign, t.i, t.g, r)>>,
            calls |-> <<>> ]

\* what the platform may answer at the await of a suspended call: the script
\* loads or not, HeicTo converts or throws, the decoder reports the picture
Outcomes(t) ==
  CASE t.pc = "loadlib" -> {[ok |-> TRUE], [ok |-> FALSE]}
    [] t.pc = "convert" -> {[blobSize |-> 0], [blobSize |-> 2500]}
    [] t.pc = "probe" -> {[dims |-> t.wf.px]}

(***************************************************************************)
(* ImageProcessor (image-processor.js).  What the platform does for one    *)
(* call of process is an input: the natural size the decoder reports, a    *)
(* fault ("decode": onerror fires, "ctx": getContext returns null, "draw": *)
(* drawing throws) and an encoder.  An encoder is the set of qualities at  *)
(* which its output is within TARGET_SIZE and the quality (if any) at      *)
(* which toBlob yields null.                                               *)
(***************************************************************************)
ErrNotImage == Err("This file could not be read as an image.", 0)
ErrContext == Err("Could not get canvas context. Try closing other tabs to free memory.", 0)
ErrProcessing == Err("Processing failed. Try closing other tabs to free memory.", 0)
ErrCompress == Err("Canvas compression failed. Try closing other tabs to free memory.", 0)
WarnOverBudget == Err("Image could not be compressed below 1MB at minimum quality.", 0)

NoDims == [width |-> -1, height |-> -1]
Rejected(err, tried) ==
  [ ok |-> FALSE, err |-> err, size |-> 0, width |-> -1, height |-> -1,
    quality |-> 0, warning |-> NoError, tried |-> tried ]
Resolved(size, width, height, quality, warning, tried) ==
  [ ok |-> TRUE, err |-> NoError, size |-> size, width |-> width, height |-> height,
    quality |-> quality, warning |-> warning, tried |-> tried ]

\* a planner that truncates instead of rounding
_calcDimensionsFloor(origW, origH) ==
  LET longest == Max(origW, origH) IN
  IF longest <= MAX_EDGE
  THEN [width |-> origW, height |-> origH]
  ELSE [width |-> (origW * MAX_EDGE) \div longest,
        height |-> (origH * MAX_EDGE) \div longest]

\* _calcDimensions (79-90): Math.round(origW * (MAX_EDGE / longest)).  The
\* program multiplies by the double MAX_EDGE / longest; on the sizes planned
\* here that product rounds as the exact quotient does.
_calcDimensions(origW, origH) ==
  LET longest == Max(origW, origH) IN
  IF longest <= MAX_EDGE
  THEN [width |-> origW, height |-> origH]
  ELSE [width |-> MathRound(origW * MAX_EDGE, longest),
        height |-> MathRound(origH * MAX_EDGE, longest)]

\* _canvasToBlob (124-138): the size of the blob, or -1 for a null blob
_canvasToBlob(enc, quality) ==
  IF quality = enc.nullAt THEN -1
  ELSE IF quality \in enc.fits THEN TARGET_SIZE ELSE TARGET_SIZE + 1

\* Math.round(quality * 100) / 100 on thousandths
RoundQuality(quality) == MathRound(quality * 100, 1000) * 10

RECURSIVE CompressLoopStrict(_, _, _, _, _)
\* a compressor that fails an image still over budget at the floor
CompressLoopStrict(enc, width, height, quality, tried) ==
  IF quality >= MIN_QUALITY
  THEN LET size == _canvasToBlob(enc, quality)
           tried2 == Append(tried, quality)
       IN IF size < 0
          THEN Rejected(ErrCompress, tried2)
          ELSE IF size <= TARGET_SIZE
               THEN Resolved(size, width, height, quality, NoError, tried2)
               ELSE CompressLoopStrict(enc, width, height,
                                       RoundQuality(quality - QUALITY_STEP), tried2)
  ELSE LET size == _canvasToBlob(enc, MIN_QUALITY)
           tried2 == Append(tried, MIN_QUALITY)
       IN IF size < 0 \/ size > TARGET_SIZE
          THEN Rejected(ErrCompress, tried2)
          ELSE Resolved(size, width, height, MIN_QUALITY, NoError, tried2)

RECURSIVE CompressLoopNoFloor(_, _, _, _, _)
\* a compressor without the final attempt: below the floor it encodes at the
\* quality it has arrived at
CompressLoopNoFloor(enc, width, height, quality, tried) ==
  IF quality >= MIN_QUALITY
  THEN LET size == _canvasToBlob(enc, quality)
           tried2 == Append(tried, quality)
       IN IF size < 0
          THEN Rejected(ErrCompress, tried2)
          ELSE IF size <= TARGET_SIZE
               THEN Resolved(size, width, height, quality, NoError, tried2)
               ELSE CompressLoopNoFloor(enc, width, height,
                                        RoundQuality(quality - QUALITY_STEP), tried2)
  ELSE LET size == _canvasToBlob(enc, quality)
           tried2 == Append(tried, quality)
       IN IF size < 0
          THEN Rejected(ErrCompress, tried2)
          ELSE Resolved(size, width, height, quality,
                        IF size > TARGET_SIZE THEN WarnOverBudget ELSE NoError, tried2)

RECURSIVE CompressLoop(_, _, _, _, _)
\* the while loop of _compress (100-109) and the final attempt (111-118);
\* tried lists the qualities handed to the encoder
CompressLoop(enc, width, height, quality, tried) ==
  IF quality >= MIN_QUALITY
  THEN LET size == _canvasToBlob(enc, quality)
           tried2 == Append(tried, quality)
       IN IF size < 0
          THEN Rejected(ErrCompress, tried2)
          ELSE IF size <= TARGET_SIZE
               THEN Resolved(size, width, height, quality, NoError, tried2)
               ELSE CompressLoop(enc, width, height,
                                 RoundQuality(quality - QUALITY_STEP), tried2)
  ELSE LET size == _canvasToBlob(enc, MIN_QUALITY)
           tried2 == Append(tried, MIN_QUALITY)
       IN IF size < 0
          THEN Rejected(ErrCompress, tried2)
          ELSE Resolved(size, width, height, MIN_QUALITY,
                        IF size > TARGET_SIZE THEN WarnOverBudget ELSE NoError, tried2)

\* _compress (95-119)
_compress(enc, width, height) == CompressLoop(enc, width, height, INITIAL_QUALITY, <<>>)

\* process (27-74) for a file that is not null
process(in) ==
  IF in.fault = "decode"
  THEN Rejected(ErrNotImage, <<>>)
  ELSE LET target == _calcDimensions(in.w, in.h) IN
       IF in.fault = "ctx" THEN Rejected(ErrContext, <<>>)
       ELSE IF in.fault = "draw" THEN Rejected(ErrProcessing, <<>>)
       ELSE _compress(in.enc, target.width, target.height)

\* encoders
Ladder == {INITIAL_QUALITY - k * QUALITY_STEP : k \in 0 .. 12}
QProbe == Ladder \cup {MIN_QUALITY, 270, 310, 900}
Encoders ==
  [ fits : {{}} \cup {{q} : q \in QProbe} \cup {{x \in QProbe : x <= q} : q \in QProbe},
    nullAt : {-1, INITIAL_QUALITY, 620, 320, MIN_QUALITY} ]
EncFirst == [fits |-> QProbe, nullAt |-> -1]
EncNever == [fits |-> {}, nullAt |-> -1]
EncNull == [fits |-> {}, nullAt |-> 870]

\* natural sizes
DimVals ==
  {0, 1, 2, 667, 1000, 1333, 1499, 1500, 1999}
    \cup {k * MAX_EDGE + d : k \in 1 .. MaxEdgeMul, d \in {0, 1}}
    \cup {k * 1500 : k \in 1 .. MaxEdgeMul}

PipelineInputs ==
  [w : DimVals, h : DimVals, fault : {"none"}, enc : {EncFirst, EncNever, EncNull}]
    \cup [w : {3000}, h : {2000}, fault : {"none"}, enc : Encoders]
    \cup [w : {3000}, h : {2000, 0}, fault : {"decode", "ctx", "draw"}, enc : {EncFirst}]

\* what the platform may do for the process call of a batch run on file
RunInputs(file) ==
  [ w : {file.px[1]}, h : {file.px[2]},
    fault : {IF file.px = <<0, 0>> THEN "decode" ELSE "none"},
    enc : {EncFirst, EncNever, EncNull} ]

NoInput == [w |-> 0, h |-> 0, fault |-> "null", enc |-> EncFirst]
NoOutput == Rejected(NoError, <<>>)

(***************************************************************************)
(* processAllImages (app.js 400-442).  A suspended run keeps its loop      *)
(* index i and the file it handed to ImageProcessor.process.               *)
(***************************************************************************)
ErrNullFile == Err("TypeError: createObjectURL", 0)
ErrProcessingFailed == Err("Processing failed.", 0)

allSlotsValid(st) == \A i \in Idx : st.heap[st.gen][i].status = "valid"

Ended(st, failedAt) == [st |-> st, task |-> <<>>, failedAt |-> failedAt, invoked |-> {}]

\* the catch block, lines 425-431
RunCatch(st, i, err) ==
  LET s1 == SetStatus(st, st.gen, i, "error")
      message == IF err.msg = "" THEN ErrProcessingFailed ELSE err
  IN Ended([s1 EXCEPT !.heap[st.gen][i].error = message, !.isProcessing = FALSE], i)

\* one iteration of the loop (410-416) up to the await, or the end of the run (434-435)
RunIteration(st, i) ==
  IF i >= NumSlots
  THEN Ended([st EXCEPT !.processingProgress = 100, !.isProcessing = FALSE], -1)
  ELSE LET s1 == [st EXCEPT !.processingCurrent = i + 1,
                            !.processingProgress = MathRound(i * 100, NumSlots)]
           s2 == SetStatus(s1, st.gen, i, "processing")
           file == s2.heap[st.gen][i].file
       IN IF file = NoFile
          THEN [RunCatch(s2, i, ErrNullFile) EXCEPT !.invoked = {i}]
          ELSE [st |-> s2, task |-> <<[i |-> i, arg |-> file]>>, failedAt |-> -1,
                invoked |-> {i}]

processAllImages(st) ==
  IF ~allSlotsValid(st) \/ st.isProcessing
  THEN Ended(st, -1)
  ELSE RunIteration([st EXCEPT !.isProcessing = TRUE, !.processingProgress = 0,
                               !.processingCurrent = 0], 0)

\* a run that goes on with the next slot after a failure
RunResumeContinue(st, t, result) ==
  IF result.ok
  THEN LET g == st.gen
           u == createObjectURL(st)
           s1 == [st EXCEPT !.heap[g][t.i].processedBlob = [src |-> t.arg],
                            !.heap[g][t.i].processedUrl = u,
                            !.liveUrls = @ \cup {u}]
       IN RunIteration(SetStatus(s1, g, t.i, "done"), t.i + 1)
  ELSE RunIteration([RunCatch(st, t.i, result.err).st EXCEPT !.isProcessing = TRUE], t.i + 1)

\* ImageProcessor.process has settled with result; the run goes on (417-419).
\* A warning of the result is only written to the developer console (421-424):
\* no field of the component takes it.
RunResume(st, t, result) ==
  IF result.ok
  THEN LET g == st.gen
           u == createObjectURL(st)
           s1 == [st EXCEPT !.heap[g][t.i].processedBlob = [src |-> t.arg],
                            !.heap[g][t.i].processedUrl = u,
                            !.liveUrls = @ \cup {u}]
       IN RunIteration(SetStatus(s1, g, t.i, "done"), t.i + 1)
  ELSE RunCatch(st, t.i, result.err)

(***************************************************************************)
(* resetApp (app.js 470-499), clearSlot (372-375), uploadToSlot (363-367), *)
(* reUploadSlot (380-383)                                                  *)
(***************************************************************************)
resetApp(st) ==
  LET old == st.heap[st.gen]
      revoked == {old[i].originalUrl : i \in Idx} \cup {old[i].processedUrl : i \in Idx}
  IN [st EXCEPT !.liveUrls = @ \ revoked,
                !.gen = @ + 1,
                !.heap[st.gen + 1] = FreshSlots,
                !.trans = {<<old[i].status, "empty">> : i \in {j \in Idx : old[j].status # "empty"}},
                !.isProcessing = FALSE,
                !.processingProgress = 0,
                !.processingCurrent = 0,
                !.excessMessage = MsgNone,
                !.replaceSlotIndex = -1]

clearSlot(st, index) == _clearSlot(st, index)

uploadToSlot(st, index) ==
  IF st.heap[st.gen][index].status # "empty" THEN st
  ELSE [st EXCEPT !.replaceSlotIndex = index]

reUploadSlot(st, index) == [st EXCEPT !.replaceSlotIndex = index]

(***************************************************************************)
(* Initial state: the component as constructed (app.js 62-94, 249)         *)
(***************************************************************************)
NoQuiet == [phase |-> "none", failedAt |-> -1, invoked |-> {}]

InitApp ==
  /\ heap = [g \in 0 .. MaxResets |-> FreshSlots]
  /\ gen = 0
  /\ isProcessing = FALSE
  /\ processingProgress = 0
  /\ processingCurrent = 0
  /\ excessMessage = MsgNone
  /\ replaceSlotIndex = -1
  /\ heicLoaded = FALSE
  /\ HeicTo = FALSE
  /\ liveUrls = {}
  /\ admissions = <<>>
  /\ runs = <<>>
  /\ lastTrans = {}
  /\ quietRun = NoQuiet

Init ==
  /\ InitApp
  /\ budget = [calls |-> MaxCalls, clears |-> 0, runs |-> 0, resets |-> 0]
  /\ pIn = NoInput
  /\ pDims = NoDims
  /\ pOut = NoOutput

\* slot objects of replaced arrays that no suspended call still holds are garbage
Collected(h, g0, adm) ==
  [ g \in DOMAIN h |->
      [ i \in Idx |->
          IF g < g0 /\ ~\E k \in 1 .. Len(adm) : adm[k].g = g /\ adm[k].emptyIndices[adm[k].i] = i
          THEN EmptySlot(i)
          ELSE h[g][i] ] ]

\* the component after a stretch
Install(st, adm, rn, quiet) ==
  /\ heap' = Collected(st.heap, st.gen, adm)
  /\ gen' = st.gen
  /\ isProcessing' = st.isProcessing
  /\ processingProgress' = st.processingProgress
  /\ processingCurrent' = st.processingCurrent
  /\ excessMessage' = st.excessMessage
  /\ replaceSlotIndex' = st.replaceSlotIndex
  /\ heicLoaded' = st.heicLoaded
  /\ HeicTo' = st.HeicTo
  /\ liveUrls' = st.liveUrls
  /\ admissions' = adm
  /\ runs' = rn
  /\ lastTrans' = st.trans
  /\ quietRun' = quiet
  /\ UNCHANGED <<pIn, pDims, pOut>>

\* the sequence s with its k-th element replaced by the elements of r (none or one)
Splice(s, k, r) == SubSeq(s, 1, k - 1) \o r \o SubSeq(s, k + 1, Len(s))

(***************************************************************************)
(* Actions.  The callers' inputs are drawn from the given menus.           *)
(***************************************************************************)
HandleFiles(lists) ==
  \E fileList \in lists :
    /\ budget.calls > 0
    /\ LET r == handleFiles(Cur, fileList) IN
       Install(r.st, admissions \o r.task, runs, NoQuiet)
    /\ budget' = [budget EXCEPT !.calls = @ - 1]

UploadToSlot ==
  \E index \in Idx :
    /\ budget.calls > 0
    /\ Install(uploadToSlot(Cur, index), admissions, runs, NoQuiet)
    /\ budget' = [budget EXCEPT !.calls = @ - 1]

ReUploadSlot ==
  \E index \in Idx :
    /\ budget.calls > 0
    /\ Install(reUploadSlot(Cur, index), admissions, runs, NoQuiet)
    /\ budget' = [budget EXCEPT !.calls = @ - 1]

HandleSlotReplace(files) ==
  \E file \in files :
    /\ budget.calls > 0
    /\ LET r == handleSlotReplace(Cur, <<file>>) IN
       Install(r.st, admissions \o r.task, runs, NoQuiet)
    /\ budget' = [budget EXCEPT !.calls = @ - 1]

\* the script load, the conversion or the probe of a suspended admission completes
AdmissionSettles ==
  \E k \in 1 .. Len(admissions) :
    \E outcome \in Outcomes(admissions[k]) :
      /\ LET r == AdmissionResume(Cur, admissions[k], outcome) IN
         Install(r.st, Splice(admissions, k, r.task), runs, NoQuiet)
      /\ UNCHANGED budget

\* kind names the budget the call is counted in
ClearSlot(kind) ==
  \E index \in Idx :
    /\ budget[kind] > 0
    /\ Install(clearSlot(Cur, index), admissions, runs, NoQuiet)
    /\ budget' = [budget EXCEPT ![kind] = @ - 1]

ResetApp ==
  /\ budget.resets > 0
  /\ Install(resetApp(Cur), admissions, runs, NoQuiet)
  /\ budget' = [budget EXCEPT !.resets = @ - 1]

\* a call that the guard of line 401 rejects changes nothing at all
ProcessAllImages ==
  LET r == processAllImages(Cur)
      accepted == allSlotsValid(Cur) /\ ~isProcessing
  IN IF accepted
     THEN /\ budget.runs > 0
          /\ Install(r.st, admissions, runs \o r.task,
                     [ phase |-> IF r.task = <<>> THEN "ended" ELSE "running",
                       failedAt |-> r.failedAt, invoked |-> r.invoked ])
          /\ budget' = [budget EXCEPT !.runs = @ - 1]
     ELSE UNCHANGED vars

\* ImageProcessor.process of a suspended run settles
RunSettles ==
  \E k \in 1 .. Len(runs) :
    \E in \in RunInputs(runs[k].arg) :
      /\ LET r == RunResume(Cur, runs[k], process(in)) IN
         Install(r.st, admissions, Splice(runs, k, r.task),
                 IF quietRun.phase = "running" /\ k = Len(runs)
                 THEN [ phase |-> IF r.task = <<>> THEN "ended" ELSE "running",
                        failedAt |-> r.failedAt,
                        invoked |-> quietRun.invoked \cup r.invoked ]
                 ELSE NoQuiet)
      /\ UNCHANGED budget

(***************************************************************************)
(* Admission study: files of every kind are admitted, picked, replaced and *)
(* cleared; no batch run is started.                                       *)
(***************************************************************************)
Next ==
  \/ HandleFiles(FileLists)
  \/ UploadToSlot
  \/ ReUploadSlot
  \/ HandleSlotReplace(ReplaceFiles)
  \/ AdmissionSettles
  \/ ClearSlot("calls")

Spec == Init /\ [][Next]_vars

(***************************************************************************)
(* Batch study: the batch of five acceptable files is admitted, run,       *)
(* cleared and reset.                                                      *)
(***************************************************************************)
BatchLists == { <<FA, FB, FC, FD, FE>> }

InitBatch ==
  /\ InitApp
  /\ budget = [calls |-> MaxBatchCalls, clears |-> MaxClears, runs |-> MaxRuns,
               resets |-> MaxResets]
  /\ pIn = NoInput
  /\ pDims = NoDims
  /\ pOut = NoOutput

NextBatch ==
  \/ HandleFiles(BatchLists)
  \/ AdmissionSettles
  \/ ClearSlot("clears")
  \/ ResetApp
  \/ ProcessAllImages
  \/ RunSettles

SpecBatch == InitBatch /\ [][NextBatch]_vars

(***************************************************************************)
(* The pipeline on its own: the platform's behaviour for one process call  *)
(* is drawn at the start, the planner and the pipeline are applied to it.  *)
(***************************************************************************)
InitPipeline ==
  /\ InitApp
  /\ budget = [calls |-> 0, clears |-> 0, runs |-> 0, resets |-> 0]
  /\ pIn \in PipelineInputs
  /\ pDims = NoDims
  /\ pOut = NoOutput

AppUnchanged ==
  UNCHANGED << heap, gen, isProcessing, processingProgress, processingCurrent, excessMessage,
               replaceSlotIndex, heicLoaded, HeicTo, liveUrls, admissions, runs, lastTrans,
               quietRun, budget >>

Plan ==
  /\ pDims = NoDims
  /\ pDims' = _calcDimensions(pIn.w, pIn.h)
  /\ UNCHANGED <<pIn, pOut>>
  /\ AppUnchanged

Process ==
  /\ pOut = NoOutput
  /\ pOut' = process(pIn)
  /\ UNCHANGED <<pIn, pDims>>
  /\ AppUnchanged

NextPipeline == Plan \/ Process

SpecPipeline == InitPipeline /\ [][NextPipeline]_vars

(***************************************************************************)
(* Properties of the pipeline (SpecPipeline)                               *)
(***************************************************************************)
Last(seq) == seq[Len(seq)]

\* C7: when every encode call of a _compress call returned a buffer, the call
\* resolves, and its result is within TARGET_SIZE or was encoded at
\* MIN_QUALITY; it is never rejected for being over budget.
BudgetOrFloor ==
  ( /\ pOut # NoOutput
    /\ pIn.fault = "none"
    /\ \A k \in 1 .. Len(pOut.tried) : pOut.tried[k] # pIn.enc.nullAt )
  => /\ pOut.ok
     /\ pOut.size <= TARGET_SIZE \/ pOut.quality = MIN_QUALITY
     /\ pOut.size > TARGET_SIZE <=> pOut.warning # NoError

\* a result over budget, encoded at the floor
BudgetOrFloorWitness ==
  /\ pOut.ok
  /\ pOut.size > TARGET_SIZE
  /\ pOut.quality = MIN_QUALITY
  /\ pOut.warning = WarnOverBudget

\* C8 as stated: the qualities handed to the encoder start at 0.92 and each is
\* exactly 0.05 below the one before.
LadderStepsOfFive ==
  pOut.tried # <<>>
  => /\ pOut.tried[1] = INITIAL_QUALITY
     /\ \A k \in 1 .. (Len(pOut.tried) - 1) : pOut.tried[k] - pOut.tried[k + 1] = QUALITY_STEP

\* C8 amended: the qualities start at 0.92 and go down by exactly 0.05 to
\* 0.32; the attempt after 0.32 is the final one at the floor 0.30, 0.02
\* lower.  No quality is repeated, and the quality of a result is the last
\* one tried, one of the 14 values 0.92, 0.87, ..., 0.32, 0.30.
QualityLadder ==
  pOut.tried # <<>>
  => /\ pOut.tried[1] = INITIAL_QUALITY
     /\ \A k \in 1 .. (Len(pOut.tried) - 1) :
          \/ pOut.tried[k] - pOut.tried[k + 1] = QUALITY_STEP /\ pOut.tried[k + 1] >= 320
          \/ k + 1 = 14 /\ pOut.tried[k] = 320 /\ pOut.tried[k + 1] = MIN_QUALITY
     /\ \A j, k \in 1 .. Len(pOut.tried) : j # k => pOut.tried[j] # pOut.tried[k]
     /\ Len(pOut.tried) <= 14
     /\ pOut.ok => /\ pOut.quality = Last(pOut.tried)
                   /\ pOut.quality \in {920 - 50 * n : n \in 0 .. 12} \cup {300}

\* the whole ladder was tried, down to the floor
QualityLadderWitness ==
  /\ pOut.ok
  /\ Len(pOut.tried) = 14
  /\ pOut.tried[13] = 320
  /\ pOut.tried[14] = MIN_QUALITY

\* r is a nearest integer to num / den
Nearest(r, num, den) ==
  LET d == r * den - num IN 2 * (IF d < 0 THEN -d ELSE d) <= den

\* C9: for a source of positive width and height the planned size is the
\* source size when the longest edge is at most 2000, and otherwise each edge
\* times 2000 / longest, rounded to a nearest integer, the longest planned
\* edge being exactly 2000; 3000 x 2000 is planned as 2000 x 1333.
PlannedDimensions ==
  (pDims # NoDims /\ pIn.w >= 1 /\ pIn.h >= 1)
  => LET longest == IF pIn.w > pIn.h THEN pIn.w ELSE pIn.h IN
     /\ longest <= 2000 => pDims.width = pIn.w /\ pDims.height = pIn.h
     /\ longest > 2000 =>
          /\ Nearest(pDims.width, pIn.w * 2000, longest)
          /\ Nearest(pDims.height, pIn.h * 2000, longest)
          /\ (IF pDims.width > pDims.height THEN pDims.width ELSE pDims.height) = 2000
     /\ (pIn.w = 3000 /\ pIn.h = 2000) => pDims.width = 2000 /\ pDims.height = 1333

\* 3000 x 1000 has been planned: the height 666.67 is rounded up
PlannedDimensionsWitness ==
  /\ pIn.w = 3000
  /\ pIn.h = 1000
  /\ pDims = [width |-> 2000, height |-> 667]

\* C10 as stated: for a source with a width or height of 0 or less the planner
\* yields no dimensions and the normalization does not produce an artifact.
InvalidDimensionsRejected ==
  (pIn.w <= 0 \/ pIn.h <= 0) => pDims = NoDims /\ ~pOut.ok

(***************************************************************************)
(* Properties of the batch run (SpecBatch)                                 *)
(***************************************************************************)
\* C1: when a run that started with five valid slots, and that no other
\* handler has disturbed, ends because the normalization of slot k failed,
\* the slots before k are done and hold their artifacts, slot k is in error
\* with the reason recorded, the slots after k are still valid, and only the
\* slots 0..k were handed to the pipeline.
SequentialBatchAbort ==
  (quietRun.phase = "ended" /\ quietRun.failedAt >= 0)
  => LET k == quietRun.failedAt IN
     /\ ~isProcessing
     /\ quietRun.invoked = 0 .. k
     /\ \A i \in Idx :
          /\ i < k => /\ slots[i].status = "done"
                      /\ slots[i].file # NoFile
                      /\ slots[i].processedBlob = [src |-> slots[i].file]
                      /\ slots[i].processedUrl \in liveUrls
          /\ i = k => /\ slots[i].status = "error"
                      /\ slots[i].error # NoError
          /\ i > k => /\ slots[i].status = "valid"
                      /\ slots[i].error = NoError

\* an undisturbed run has just been aborted by slot 2
SequentialBatchAbortWitness ==
  /\ quietRun.phase = "ended"
  /\ quietRun.failedAt = 2
  /\ slots[1].status = "done"
  /\ slots[2].status = "error"
  /\ slots[3].status = "valid"

\* C2 as stated: a processAllImages call made while some slot is not valid or
\* while isProcessing is set changes nothing and invokes no normalization,
\* and at most one run is in progress at any time.
RejectedRunIsNoOp ==
  /\ (~allSlotsValid(Cur) \/ isProcessing)
     => LET r == processAllImages(Cur) IN
        r.st = Cur /\ r.task = <<>> /\ r.invoked = {}
  /\ Len(runs) <= 1

\* C3 as stated: every status assignment to a slot is one of the documented
\* transitions.
Documented ==
  { <<"empty", "validating">>, <<"validating", "valid">>, <<"validating", "error">>,
    <<"valid", "processing">>, <<"processing", "done">>, <<"processing", "error">>,
    <<"valid", "empty">>, <<"error", "empty">>, <<"done", "empty">> }

DocumentedTransitions == lastTrans \subseteq Documented

(***************************************************************************)
(* Properties of admission (Spec)                                          *)
(***************************************************************************)
\* C4: in every state, admitting any file into any slot ends in the
\* duplicate error exactly when another slot retains a descriptor of the same
\* name and the same size.
DuplicateExactly ==
  \A index \in Idx : \A file \in Files :
    LET r == assignFileToSlot(Cur, index, file)
        slot == r.st.heap[gen][index]
    IN (r.pc = "settled" /\ slot.status = "error" /\ slot.error = ErrDuplicate)
       <=> \E j \in Idx \ {index} :
             /\ slots[j].originalFile # NoFile
             /\ slots[j].originalFile.name = file.name
             /\ slots[j].originalFile.size = file.size

\* FA is retained by slot 0 and its second admission, into slot 1, has failed
\* as a duplicate
DuplicateExactlyWitness ==
  /\ slots[0].status = "valid"
  /\ slots[0].originalFile = FA
  /\ slots[1].status = "error"
  /\ slots[1].error = ErrDuplicate

\* C5: in every state, admitting a file of more than 10 MiB that is no
\* duplicate ends in the size error before any platform call: nothing is
\* awaited, the HEIC library state is untouched and no object URL is made;
\* a file of exactly 10 MiB does not get the size error; and no suspended
\* admission ever waits on the codec or the decoder for an oversized file.
SizeGateFirst ==
  /\ \A index \in Idx : \A file \in Files :
       LET r == assignFileToSlot(Cur, index, file)
           slot == r.st.heap[gen][index]
           duplicate == \E j \in Idx \ {index} :
                          /\ slots[j].originalFile # NoFile
                          /\ slots[j].originalFile.name = file.name
                          /\ slots[j].originalFile.size = file.size
       IN /\ (file.size > 10 * 1024 * 1024 /\ ~duplicate)
             => /\ r.pc = "settled"
                /\ slot.status = "error"
                /\ slot.error = ErrTooLarge(file.size)
                /\ r.st.heicLoaded = heicLoaded
                /\ r.st.HeicTo = HeicTo
                /\ r.st.liveUrls \subseteq liveUrls
          /\ (file.size = 10 * 1024 * 1024 /\ ~duplicate)
             => slot.error.msg # ErrTooLarge(file.size).msg
  /\ \A k \in 1 .. Len(admissions) :
       admissions[k].toAssign[admissions[k].i].size <= 10 * 1024 * 1024

\* the 11 MiB HEIC file has been rejected for its size and the library was
\* never asked for
SizeGateFirstWitness ==
  /\ \E i \in Idx : slots[i].status = "error" /\ slots[i].error = ErrTooLarge(FHB.size)
  /\ ~heicLoaded
  /\ admissions = <<>>

\* the lists a bulk admission is tried with in every state
BulkLists == FileLists \cup { <<FA, FB, FC, FD, FE>>, <<FB>>, <<FB, FC>> }

Smaller(a, b) == IF a < b THEN a ELSE b

EmptyCount == Cardinality({e \in Idx : slots[e].status = "empty"})

\* the j-th lowest index of an empty slot
JthEmpty(j) ==
  CHOOSE e \in Idx :
    /\ slots[e].status = "empty"
    /\ Cardinality({d \in Idx : d < e /\ slots[d].status = "empty"}) = j - 1

\* what a bulk admission of fileList has to attempt, in order
ExpectedCalls(fileList) ==
  [j \in 1 .. Smaller(Len(fileList), EmptyCount) |-> <<JthEmpty(j), fileList[j]>>]

\* what a call attempted in its first stretch and still has before it
PlannedCalls(r) ==
  r.calls \o
    ( IF r.task = <<>> THEN <<>>
      ELSE LET t == r.task[1] IN
           [j \in 1 .. (Len(t.toAssign) - t.i) |-> <<t.emptyIndices[t.i + j], t.toAssign[t.i + j]>>] )

\* the first min(N, E) files go to the empty slots in ascending order, and
\* the slots that are not empty are left as they are
BulkPlan(fileList, r) ==
  /\ PlannedCalls(r) = ExpectedCalls(fileList)
  /\ \A i \in Idx : slots[i].status # "empty" => r.st.heap[gen][i] = slots[i]

\* the resumption of a suspended call goes on with the files after the
\* current one, in order, and leaves the other slots as they are
BulkResume ==
  \A k \in 1 .. Len(admissions) : \A outcome \in Outcomes(admissions[k]) :
    LET t == admissions[k]
        r == AdmissionResume(Cur, t, outcome)
    IN /\ \E n \in 0 .. (Len(t.toAssign) - t.i) :
            r.calls = [j \in 1 .. n |-> <<t.emptyIndices[t.i + j], t.toAssign[t.i + j]>>]
       /\ \A i \in Idx :
            (\A j \in t.i .. Len(t.toAssign) : t.emptyIndices[j] # i)
            => r.st.heap[gen][i] = slots[i]

\* C6 as stated: handleFiles with N files and E empty slots attempts the
\* first min(N, E) files on the empty slots in ascending order, leaves the
\* other slots untouched and reports the count N - min(N, E) of the files it
\* skipped.
BulkAdmissionCounted ==
  \A fileList \in BulkLists :
    LET r == handleFiles(Cur, fileList)
        excess == Len(fileList) - Smaller(Len(fileList), EmptyCount)
    IN /\ BulkPlan(fileList, r)
       /\ excess > 0 => r.st.excessMessage = MsgSkipped(excess)

\* C6 amended: as stated when at least one slot is empty (the message is
\* blank when no file is skipped); when no slot is empty the call attempts
\* nothing and sets the message that all slots are filled, which carries no
\* count.
BulkAdmission ==
  /\ \A fileList \in BulkLists :
       LET r == handleFiles(Cur, fileList)
           excess == Len(fileList) - Smaller(Len(fileList), EmptyCount)
       IN /\ BulkPlan(fileList, r)
          /\ (EmptyCount > 0 /\ excess > 0) => r.st.excessMessage = MsgSkipped(excess)
          /\ (EmptyCount > 0 /\ excess = 0 /\ fileList # <<>>) => r.st.excessMessage = MsgNone
          /\ (EmptyCount = 0 /\ fileList # <<>>)
             => /\ r.st = [Cur EXCEPT !.excessMessage = MsgAllFilled]
                /\ r.task = <<>>
                /\ r.calls = <<>>
          /\ fileList = <<>> => r.st = Cur /\ r.task = <<>> /\ r.calls = <<>>
  /\ BulkResume

\* six files were handed in with five slots empty: one is reported as skipped
\* and the call is at its third file
BulkAdmissionWitness ==
  /\ excessMessage = MsgSkipped(1)
  /\ Len(admissions) = 1
  /\ admissions[1].emptyIndices = <<0, 1, 2, 3, 4>>
  /\ Len(admissions[1].toAssign) = 5
  /\ admissions[1].i = 3
  /\ slots[0].status = "valid"

(***************************************************************************)
(* Further properties of the batch run (SpecBatch)                         *)
(***************************************************************************)
\* the result of process for the file of a suspended run when no quality
\* brings the picture within TARGET_SIZE, and the same result without its warning
DegradedResult(file) ==
  process([w |-> file.px[1], h |-> file.px[2], fault |-> "none", enc |-> EncNever])

WithoutWarning(result) == [result EXCEPT !.warning = NoError]

\* C11 as stated: when the normalization of a slot settles with a result that
\* is still over budget at quality 0.30, the run stores the artifact, sets the
\* slot to done, goes on with the next slot, and the warning reaches the
\* component's data, from which the page is rendered: the component is not
\* left as it is left by the same result without warning.
DegradedSurfaced ==
  \A k \in 1 .. Len(runs) :
    LET t == runs[k]
        result == DegradedResult(t.arg)
        r == RunResume(Cur, t, result)
        slot == r.st.heap[gen][t.i]
    IN /\ result.ok /\ result.warning = WarnOverBudget /\ result.quality = MIN_QUALITY
       /\ slot.status = "done"
       /\ slot.processedBlob = [src |-> t.arg]
       /\ slot.error = slots[t.i].error
       /\ r.failedAt # t.i
       /\ t.i + 1 < NumSlots => r.invoked = {t.i + 1}
       /\ r.st # RunResume(Cur, t, WithoutWarning(result)).st

(***************************************************************************)
(* Retry study: the batch of five is admitted and run; the user may pick   *)
(* one slot (reUploadSlot) and put another acceptable file into it         *)
(* (handleSlotReplace) before running again.                               *)
(***************************************************************************)
\* an acceptable file that is not in the batch
FG == File("g", "jpg", 1000, "image/jpeg", <<1600, 1200>>)

InitRetry ==
  /\ InitApp
  /\ budget = [calls |-> MaxCalls, clears |-> 0, runs |-> MaxRuns, resets |-> 0]
  /\ pIn = NoInput
  /\ pDims = NoDims
  /\ pOut = NoOutput

NextRetry ==
  \/ HandleFiles(BatchLists)
  \/ ReUploadSlot
  \/ HandleSlotReplace({FG})
  \/ AdmissionSettles
  \/ ProcessAllImages
  \/ RunSettles

SpecRetry == InitRetry /\ [][NextRetry]_vars

\* no call is suspended, the slots before k are done and hold their artifacts,
\* slot k and the slots after it are valid: the batch after a run that aborted
\* on slot k, once slot k has been admitted again
ReadyToRetry(k) ==
  /\ ~isProcessing
  /\ runs = <<>>
  /\ admissions = <<>>
  /\ \A i \in Idx :
       /\ i < k => slots[i].status = "done" /\ slots[i].processedBlob # NoBlob
       /\ i >= k => slots[i].status = "valid" /\ slots[i].file # NoFile

\* C12 as stated: once the slot k on which a run aborted is valid again, a
\* further processAllImages call resumes the batch: it takes up slot k and
\* leaves the done slots before k as they are.
RetryResumes ==
  \A k \in Idx :
    ReadyToRetry(k)
    => LET r == processAllImages(Cur) IN
       /\ r.invoked = {k}
       /\ r.st.isProcessing
       /\ r.st.heap[gen][k].status = "processing"
       /\ \A i \in Idx : i < k => r.st.heap[gen][i] = slots[i]

(***************************************************************************)
(* Slot invariants                                                         *)
(***************************************************************************)
\* C13 as stated: in every state a slot holds a source file (slot.file)
\* exactly when its status is not empty.
SourceIffNotEmpty ==
  \A i \in Idx : (slots[i].file # NoFile) <=> (slots[i].status # "empty")

\* C14 as stated: in every state a slot holds an artifact (slot.processedBlob)
\* exactly when its status is done.
ArtifactIffDone ==
  \A i \in Idx : (slots[i].processedBlob # NoBlob) <=> (slots[i].status = "done")

(***************************************************************************)
(* Reset                                                                   *)
(***************************************************************************)
\* the five slots of the current array are empty and hold nothing
AllDiscarded(st) == st.heap[st.gen] = FreshSlots

\* C15 as stated: wherever resetApp is called, it leaves five empty slots
\* that hold nothing and no run in progress, and when a suspended admission
\* or run continues after the reset the slots are still empty and still no
\* run is in progress.
ResetDiscardsBatch ==
  budget.resets > 0
  => LET s1 == resetApp(Cur) IN
     /\ AllDiscarded(s1)
     /\ ~s1.isProcessing
     /\ \A k \in 1 .. Len(admissions) :
          \A outcome \in Outcomes(admissions[k]) :
            AllDiscarded(AdmissionResume(s1, admissions[k], outcome).st)
     /\ \A k \in 1 .. Len(runs) :
          \A in \in RunInputs(runs[k].arg) :
            LET r == RunResume(s1, runs[k], process(in)) IN
            AllDiscarded(r.st) /\ ~r.st.isProcessing

(***************************************************************************)
(* The HEIC library                                                        *)
(***************************************************************************)
\* a second HEIC file, told from FH by its name
FH2 == File("h2", "heif", 3000, "image/heif", <<4000, 3000>>)

\* the script of _loadHeicLib has been injected before: a load is pending,
\* or a slot still shows that a load failed
LoadStartedBefore ==
  \/ \E k \in 1 .. Len(admissions) : admissions[k].pc = "loadlib"
  \/ \E i \in Idx : slots[i].error = ErrLoad

\* C16 as stated: an admission injects the script only for a HEIC/HEIF file
\* that has passed the duplicate and the size check, and no admission injects
\* it once it has been injected before, be that load pending or failed.
LoadsAtMostOnce ==
  \A index \in Idx : \A file \in Files \cup {FH2} :
    LET r == assignFileToSlot(Cur, index, file) IN
    r.pc = "loadlib"
    => /\ _isHeic(file)
       /\ ~isDuplicate(_clearSlot(Cur, index).heap[gen], index, file)
       /\ file.size <= maxSize
       /\ ~LoadStartedBefore

(***************************************************************************)
(* Object URLs                                                             *)
(***************************************************************************)
\* the handles written in the slots of this.slots
SlotUrls ==
  ({slots[i].originalUrl : i \in Idx} \cup {slots[i].processedUrl : i \in Idx}) \ {0}

\* C17 as stated: in every state the object URLs created and not revoked
\* are the ones the current slots refer to.
HandlesReleased == liveUrls = SlotUrls

(***************************************************************************)
(* Interference                                                            *)
(***************************************************************************)
\* C18 as stated: while a slot is processing, clearSlot of it, a replacement
\* of it (reUploadSlot and handleSlotReplace), a bulk admission and resetApp
\* are not accepted: they leave its status, source file and descriptor as
\* they are.
ProcessingUndisturbed ==
  \A i \in Idx :
    slots[i].status = "processing"
    => LET kept(st) == /\ st.heap[st.gen][i].status = "processing"
                       /\ st.heap[st.gen][i].file = slots[i].file
                       /\ st.heap[st.gen][i].originalFile = slots[i].originalFile
       IN /\ kept(clearSlot(Cur, i))
          /\ kept(handleSlotReplace(reUploadSlot(Cur, i), <<FG>>).st)
          /\ \A fileList \in BatchLists : kept(handleFiles(Cur, fileList).st)
          /\ budget.resets > 0 => kept(resetApp(Cur))

\* C19 as stated: at every moment at most one asynchronous operation (script
\* load, conversion, probe or normalization) is pending.
OneOperationInFlight == Len(admissions) + Len(runs) <= 1

(***************************************************************************)
(* Further properties of the pipeline (SpecPipeline)                       *)
(***************************************************************************)
\* C20 as stated: for a source of positive width and height the planned
\* width and height are both at least 1, and so are the dimensions of the
\* result of process.
PlannedDimensionsPositive ==
  (pIn.w > 0 /\ pIn.h > 0)
  => /\ pDims # NoDims => pDims.width >= 1 /\ pDims.height >= 1
     /\ pOut.ok => pOut.width >= 1 /\ pOut.height >= 1

(***************************************************************************)
(* Descriptors                                                             *)
(***************************************************************************)
\* C21: in every state, no two distinct slots retain descriptors
\* (originalFile) of the same name and the same size; in particular no two
\* valid slots do.
DescriptorsUnique ==
  \A i, j \in Idx :
    (i # j /\ slots[i].originalFile # NoFile /\ slots[j].originalFile # NoFile)
    => ~(/\ slots[i].originalFile.name = slots[j].originalFile.name
         /\ slots[i].originalFile.size = slots[j].originalFile.size)

\* two valid slots retain descriptors of one name and different sizes, and a
\* further slot has refused the second copy of one of them as a duplicate
DescriptorsUniqueWitness ==
  \E i, j, k \in Idx :
    /\ slots[i].status = "valid" /\ slots[i].originalFile = FA
    /\ slots[j].status = "valid" /\ slots[j].originalFile = FA2
    /\ slots[k].status = "error" /\ slots[k].error = ErrDuplicate

(***************************************************************************)
(* Provenance of the artifacts                                             *)
(***************************************************************************)
\* C22 as stated: in every state, a slot that is done holds a source file
\* and its artifact was made from that file; and a run that continues after
\* a reset writes nothing into the slots the reset has created.
ArtifactFromOwnSource ==
  /\ \A i \in Idx :
       slots[i].status = "done"
       => /\ slots[i].file # NoFile
          /\ slots[i].processedBlob = [src |-> slots[i].file]
  /\ budget.resets > 0
     => LET s1 == resetApp(Cur) IN
        \A k \in 1 .. Len(runs) :
          \A in \in RunInputs(runs[k].arg) :
            AllDiscarded(RunResume(s1, runs[k], process(in)).st)

====
